---- MODULE Spec2Model ----
(***************************************************************************)
(* Model of ipynb2zed.py: the conversion of a Jupyter notebook (JSON) into *)
(* a Python file with "# %% Cell N" markers.                               *)
(*                                                                         *)
(* Text is a sequence of atoms.  An atom is a piece of text that the       *)
(* program never looks inside: the newline, the marker prefix             *)
(* "# %% Cell ", a decimal digit, the docstring and fence delimiters and   *)
(* an ordinary character.  Concatenation, str.endswith('\n') and the       *)
(* split of a text into lines are exact on this representation.            *)
(***************************************************************************)
EXTENDS Integers, Sequences, FiniteSets, TLC

VARIABLES
    inFile,        \* the input path: what open() and json.load() meet there
    outWritable,   \* whether open(output_file, 'w') succeeds
    outFile,       \* the output path: [exists, data]
    pc,            \* position in main / convert_notebook_to_py
    inOpen,        \* the input handle is held
    outOpen,       \* the output handle is held
    notebook,      \* local: the parsed JSON value
    cells,         \* local: notebook.get('cells', [])
    taken,         \* enumerate(cells): how many items the iterator has given
    i,             \* local: the index enumerate gave with the current cell
    cell,          \* local: the current cell
    cell_type,     \* local
    cell_content,  \* local
    pending,       \* the file_handle.write calls write_cell has still to make
    exc,           \* the exception in flight, "" when none
    success,       \* the value convert_notebook_to_py returned
    exitCode,      \* the argument of sys.exit, -1 before it
    run,           \* "first" or "second" invocation on the same paths
    outBefore,     \* history: outFile when this invocation started
    firstOut,      \* history: outFile when the first invocation ended
    blockStart     \* history: Len(outFile.data) when write_cell was entered

vars == <<inFile, outWritable, outFile, pc, inOpen, outOpen, notebook, cells,
          taken, i, cell, cell_type, cell_content, pending, exc, success,
          exitCode, run, outBefore, firstOut, blockStart>>

----------------------------------------------------------------------------
(* Text atoms *)

NL == "\n"
Hdr == "# %% Cell "
Q3 == "\"\"\""
\* the fence of three grave accents, spelled out (the grave accent is a
\* comment delimiter of the TLA+ lexer)
Fence == "<3 grave accents>"
FenceMd == "<3 grave accents>md"
X == "x"

Digits == <<"0", "1", "2", "3", "4", "5", "6", "7", "8", "9">>

\* f"{cell_number}": the decimal rendering, no padding
RECURSIVE Dec(_)
Dec(n) ==
    IF n < 10 THEN <<Digits[n + 1]>>
    ELSE Dec(n \div 10) \o <<Digits[(n % 10) + 1]>>

\* str.endswith('\n')
EndsWithNL(s) == Len(s) > 0 /\ s[Len(s)] = NL

\* a join that puts a newline between the fragments, "\n".join(fragments)
RECURSIVE Join_newline(_)
Join_newline(frags) ==
    IF frags = <<>> THEN <<>>
    ELSE IF Tail(frags) = <<>> THEN Head(frags)
    ELSE Head(frags) \o <<NL>> \o Join_newline(Tail(frags))

\* ''.join(fragments)
RECURSIVE Join(_)
Join(frags) ==
    IF frags = <<>> THEN <<>> ELSE Head(frags) \o Join(Tail(frags))

\* dict.get(key, default)
Get(d, key, default) == IF key \in DOMAIN d THEN d[key] ELSE default

----------------------------------------------------------------------------
(* JSON values *)

JNull == [t |-> "null"]
JArray(a) == [t |-> "array", a |-> a]
JObject(d) == [t |-> "object", d |-> d]

IsObject(v) == v.t = "object"
IsArray(v) == v.t = "array"

----------------------------------------------------------------------------
(* The formatters and write_cell, as the sequence of file_handle.write     *)
(* calls each makes.                                                       *)

\* a code formatter without the endswith test
process_code_cell_always_nl(cell_content_) == <<cell_content_, <<NL>>>>

process_code_cell(cell_content_) ==
    <<cell_content_>>
    \o (IF ~EndsWithNL(cell_content_) THEN <<<<NL>>>> ELSE <<>>)

\* a markdown formatter that closes the docstring without closing the fence
process_markdown_cell_open_fence(cell_content_) ==
    <<<<Q3, NL>>, <<FenceMd, NL>>, cell_content_>>
    \o (IF ~EndsWithNL(cell_content_) THEN <<<<NL>>>> ELSE <<>>)
    \o <<<<Q3, NL>>>>

process_markdown_cell(cell_content_) ==
    <<<<Q3, NL>>, <<FenceMd, NL>>, cell_content_>>
    \o (IF ~EndsWithNL(cell_content_) THEN <<<<NL>>>> ELSE <<>>)
    \o <<<<Fence, NL>>, <<Q3, NL>>>>

process_raw_cell(cell_content_) ==
    <<<<Q3, NL>>, cell_content_>>
    \o (IF ~EndsWithNL(cell_content_) THEN <<<<NL>>>> ELSE <<>>)
    \o <<<<Q3, NL>>>>

\* the if / elif / elif chain of write_cell: no else branch
dispatch(cell_type_, cell_content_) ==
    IF cell_type_ = "code" THEN process_code_cell(cell_content_)
    ELSE IF cell_type_ = "markdown" THEN process_markdown_cell(cell_content_)
    ELSE IF cell_type_ = "raw" THEN process_raw_cell(cell_content_)
    ELSE <<>>

marker(cell_number) == <<Hdr>> \o Dec(cell_number) \o <<NL>>

write_cell(cell_number, cell_type_, cell_content_) ==
    <<marker(cell_number)>>
    \o dispatch(cell_type_, cell_content_)
    \o <<<<NL>>>>

----------------------------------------------------------------------------
(* The except clauses of convert_notebook_to_py *)

\* except (IOError, json.JSONDecodeError)
IsIOOrJSONError(e) == e \in {"IOError", "JSONDecodeError"}

\* a handler list without the catch-all clause
IsException_none(e) == FALSE

\* except Exception
IsException(e) ==
    e \in {"IOError", "JSONDecodeError", "AttributeError", "TypeError", "KeyError"}

----------------------------------------------------------------------------
(* Inputs *)

MaxCells == 2
MaxLen == 3

CellTypes == {"code", "markdown", "raw", "unknown"}
Alphabet == {X, NL, Hdr, "1"}

Strings(n) == UNION {[1..k -> Alphabet] : k \in 0..n}

\* the cell objects over the given "source" values, each of "cell_type" and
\* "source" present or absent
CellObjects(sources) ==
    {JObject(<<>>)}
    \cup {JObject([cell_type |-> t]) : t \in CellTypes}
    \cup {JObject([source |-> s]) : s \in sources}
    \cup {JObject([cell_type |-> t, source |-> s]) : t \in CellTypes, s \in sources}

\* one cell, its source empty or one fragment of at most MaxLen atoms
OneFragmentSources == {<<>>} \cup {<<c>> : c \in Strings(MaxLen)}
SingleCellLists == {<<c>> : c \in CellObjects(OneFragmentSources)}

\* sources of several fragments, as nbformat writes them (one per line), and
\* one whose fragments join into a line of the form of a marker
SampleSources ==
    { <<>>,
      << <<X, NL>>, <<X>> >>,
      << <<Hdr>>, <<"1", NL>> >> }
SampleCells == CellObjects(SampleSources) \cup {JNull}
CellLists == UNION {[1..k -> SampleCells] : k \in 0..MaxCells}

\* what the input path holds: nothing readable, text that is not JSON, or a
\* JSON value: not an object, an object without "cells", an object whose
\* "cells" is not iterable, a notebook
InputFiles(lists) ==
    { [readable |-> FALSE],
      [readable |-> TRUE, parses |-> FALSE] }
    \cup { [readable |-> TRUE, parses |-> TRUE, value |-> v] :
             v \in {JNull, JArray(<<>>), JObject(<<>>), JObject([cells |-> JNull])}
                   \cup {JObject([cells |-> JArray(l)]) : l \in lists} }

StaleData == <<X, NL>>
OutFiles == { [exists |-> FALSE, data |-> <<>>], [exists |-> TRUE, data |-> StaleData] }

InitWith(files) ==
    /\ inFile \in files
    /\ outWritable \in BOOLEAN
    /\ outFile \in OutFiles
    /\ pc = "open_in"
    /\ inOpen = FALSE
    /\ outOpen = FALSE
    /\ notebook = JNull
    /\ cells = JNull
    /\ taken = 0
    /\ i = 0
    /\ cell = JNull
    /\ cell_type = ""
    /\ cell_content = <<>>
    /\ pending = <<>>
    /\ exc = ""
    /\ success = "none"
    /\ exitCode = -1
    /\ run = "first"
    /\ outBefore = outFile
    /\ firstOut = outFile
    /\ blockStart = 0

Init == InitWith(InputFiles(CellLists))
InitCell == InitWith(InputFiles(SingleCellLists))

----------------------------------------------------------------------------
(* convert_notebook_to_py, one action per statement *)

env == <<inFile, outWritable, run, outBefore, firstOut>>
loopVars == <<taken, i, cell, cell_type, cell_content, pending, blockStart>>

\* an exception leaves the with block (the handle is released) and reaches
\* the except clauses
Raise(e) == pc' = "raised" /\ exc' = e

\* both files opened in one with statement
OpenInput_both ==
    /\ pc = "open_in"
    /\ IF inFile.readable
       THEN /\ inOpen' = TRUE /\ pc' = "json_load" /\ exc' = exc
            /\ outFile' = IF outWritable THEN [exists |-> TRUE, data |-> <<>>] ELSE outFile
       ELSE inOpen' = inOpen /\ Raise("IOError") /\ outFile' = outFile
    /\ UNCHANGED <<env, loopVars, outOpen, notebook, cells, success, exitCode>>

\* with open(input_file, 'r', encoding='utf-8') as f
OpenInput ==
    /\ pc = "open_in"
    /\ IF inFile.readable
       THEN inOpen' = TRUE /\ pc' = "json_load" /\ exc' = exc
       ELSE inOpen' = inOpen /\ Raise("IOError")
    /\ UNCHANGED <<env, loopVars, outFile, outOpen, notebook, cells, success, exitCode>>

\* notebook = json.load(f), and the end of the with block
JsonLoad ==
    /\ pc = "json_load"
    /\ inOpen' = FALSE
    /\ IF inFile.parses
       THEN notebook' = inFile.value /\ pc' = "get_cells" /\ exc' = exc
       ELSE notebook' = notebook /\ Raise("JSONDecodeError")
    /\ UNCHANGED <<env, loopVars, outFile, outOpen, cells, success, exitCode>>

\* cells = notebook['cells']
GetCells_subscript ==
    /\ pc = "get_cells"
    /\ IF ~IsObject(notebook)
       THEN cells' = cells /\ Raise("TypeError")
       ELSE IF "cells" \in DOMAIN notebook.d
       THEN cells' = notebook.d.cells /\ pc' = "open_out" /\ exc' = exc
       ELSE cells' = cells /\ Raise("KeyError")
    /\ UNCHANGED <<env, loopVars, outFile, inOpen, outOpen, notebook, success, exitCode>>

\* cells = notebook.get('cells', [])
GetCells ==
    /\ pc = "get_cells"
    /\ IF IsObject(notebook)
       THEN cells' = Get(notebook.d, "cells", JArray(<<>>)) /\ pc' = "open_out" /\ exc' = exc
       ELSE cells' = cells /\ Raise("AttributeError")
    /\ UNCHANGED <<env, loopVars, outFile, inOpen, outOpen, notebook, success, exitCode>>

\* the output opened with mode 'a'
OpenOutput_append ==
    /\ pc = "open_out"
    /\ IF outWritable
       THEN /\ outFile' = [exists |-> TRUE, data |-> outFile.data]
            /\ outOpen' = TRUE
            /\ pc' = "for"
            /\ exc' = exc
       ELSE /\ UNCHANGED <<outFile, outOpen>>
            /\ Raise("IOError")
    /\ UNCHANGED <<env, loopVars, inOpen, notebook, cells, success, exitCode>>

\* with open(output_file, 'w', encoding='utf-8') as f
OpenOutput ==
    /\ pc = "open_out"
    /\ IF outWritable
       THEN /\ outFile' = [exists |-> TRUE, data |-> <<>>]
            /\ outOpen' = TRUE
            /\ pc' = "for"
            /\ exc' = exc
       ELSE /\ UNCHANGED <<outFile, outOpen>>
            /\ Raise("IOError")
    /\ UNCHANGED <<env, loopVars, inOpen, notebook, cells, success, exitCode>>

\* for i, cell in enumerate(cells), and the end of the with block when the
\* iterator is exhausted
ForCell ==
    /\ pc = "for"
    /\ IF ~IsArray(cells)
       THEN /\ outOpen' = FALSE
            /\ Raise("TypeError")
            /\ UNCHANGED <<taken, i, cell>>
       ELSE IF taken < Len(cells.a)
       THEN /\ cell' = cells.a[taken + 1]
            /\ i' = taken
            /\ taken' = taken + 1
            /\ pc' = "cell"
            /\ UNCHANGED <<outOpen, exc>>
       ELSE /\ outOpen' = FALSE
            /\ pc' = "print_ok"
            /\ UNCHANGED <<taken, i, cell, exc>>
    /\ UNCHANGED <<env, outFile, inOpen, notebook, cells, cell_type, cell_content,
                   pending, blockStart, success, exitCode>>

\* cell_type = cell.get('cell_type', 'code')
\* cell_content = ''.join(cell.get('source', []))
ReadCell ==
    /\ pc = "cell"
    /\ IF IsObject(cell)
       THEN /\ cell_type' = Get(cell.d, "cell_type", "code")
            /\ cell_content' = Join(Get(cell.d, "source", <<>>))
            /\ pc' = "call"
            /\ UNCHANGED <<outOpen, exc>>
       ELSE /\ outOpen' = FALSE
            /\ Raise("AttributeError")
            /\ UNCHANGED <<cell_type, cell_content>>
    /\ UNCHANGED <<env, outFile, inOpen, notebook, cells, taken, i, cell, pending,
                   blockStart, success, exitCode>>

\* write_cell(f, i, cell_type, cell_content): the marker numbered from 0
CallWriteCell_zero_based ==
    /\ pc = "call"
    /\ pending' = write_cell(i, cell_type, cell_content)
    /\ blockStart' = Len(outFile.data)
    /\ pc' = "writing"
    /\ UNCHANGED <<env, outFile, inOpen, outOpen, notebook, cells, taken, i, cell,
                   cell_type, cell_content, exc, success, exitCode>>

\* write_cell(f, i+1, cell_type, cell_content): the call
CallWriteCell ==
    /\ pc = "call"
    /\ pending' = write_cell(i + 1, cell_type, cell_content)
    /\ blockStart' = Len(outFile.data)
    /\ pc' = "writing"
    /\ UNCHANGED <<env, outFile, inOpen, outOpen, notebook, cells, taken, i, cell,
                   cell_type, cell_content, exc, success, exitCode>>

\* the next file_handle.write of write_cell; after the last one it returns
FileWrite ==
    /\ pc = "writing"
    /\ pending # <<>>
    /\ outFile' = [outFile EXCEPT !.data = @ \o Head(pending)]
    /\ pending' = Tail(pending)
    /\ pc' = IF Tail(pending) = <<>> THEN "for" ELSE "writing"
    /\ UNCHANGED <<env, inOpen, outOpen, notebook, cells, taken, i, cell,
                   cell_type, cell_content, blockStart, exc, success, exitCode>>

\* print(f"Conversion completed: ..."); return True
ReturnTrue ==
    /\ pc = "print_ok"
    /\ success' = "True"
    /\ pc' = "exit"
    /\ UNCHANGED <<env, loopVars, outFile, inOpen, outOpen, notebook, cells, exc, exitCode>>

\* the two except clauses: each prints a diagnostic and returns False; an
\* exception that neither names leaves the function
Except ==
    /\ pc = "raised"
    /\ IF IsIOOrJSONError(exc) \/ IsException(exc)
       THEN success' = "False" /\ pc' = "exit" /\ exc' = ""
       ELSE success' = success /\ pc' = "uncaught" /\ exc' = exc
    /\ UNCHANGED <<env, loopVars, outFile, inOpen, outOpen, notebook, cells, exitCode>>

\* main: sys.exit(0 if success else 1)
Exit ==
    /\ pc = "exit"
    /\ exitCode' = IF success = "True" THEN 0 ELSE 1
    /\ pc' = "done"
    /\ UNCHANGED <<env, loopVars, outFile, inOpen, outOpen, notebook, cells, exc, success>>

\* the program is run again on the same two paths; the input is unchanged
Rerun ==
    /\ pc = "done"
    /\ run = "first"
    /\ run' = "second"
    /\ firstOut' = outFile
    /\ outBefore' = outFile
    /\ pc' = "open_in"
    /\ notebook' = JNull
    /\ cells' = JNull
    /\ taken' = 0
    /\ i' = 0
    /\ cell' = JNull
    /\ cell_type' = ""
    /\ cell_content' = <<>>
    /\ pending' = <<>>
    /\ exc' = ""
    /\ success' = "none"
    /\ exitCode' = -1
    /\ blockStart' = 0
    /\ UNCHANGED <<inFile, outWritable, outFile, inOpen, outOpen>>

Next ==
    \/ OpenInput
    \/ JsonLoad
    \/ GetCells
    \/ OpenOutput
    \/ ForCell
    \/ ReadCell
    \/ CallWriteCell
    \/ FileWrite
    \/ ReturnTrue
    \/ Except
    \/ Exit
    \/ Rerun

Spec == Init /\ [][Next]_vars
SpecCell == InitCell /\ [][Next]_vars

----------------------------------------------------------------------------
(* Vocabulary of the properties *)

RECURSIVE Concat(_)
Concat(texts) ==
    IF Len(texts) = 0 THEN <<>>
    ELSE Concat(SubSeq(texts, 1, Len(texts) - 1)) \o texts[Len(texts)]

IsPrefix(p, s) == Len(p) <= Len(s) /\ SubSeq(s, 1, Len(p)) = p

EnsureNL(c) == IF EndsWithNL(c) THEN c ELSE c \o <<NL>>

MarkerLine(n) == <<Hdr>> \o Dec(n) \o <<NL>>

\* the lines of a text, without their newlines
RECURSIVE SplitLines(_, _)
SplitLines(s, cur) ==
    IF s = <<>> THEN (IF cur = <<>> THEN <<>> ELSE <<cur>>)
    ELSE IF Head(s) = NL THEN <<cur>> \o SplitLines(Tail(s), <<>>)
    ELSE SplitLines(Tail(s), Append(cur, Head(s)))

IsDigit(a) == \E d \in DOMAIN Digits : Digits[d] = a

\* a line of the form "# %% Cell <n>"
IsMarkerLine(l) ==
    /\ Len(l) >= 2
    /\ l[1] = Hdr
    /\ \A j \in 2..Len(l) : IsDigit(l[j])

MarkerLines(s) == SelectSeq(SplitLines(s, <<>>), IsMarkerLine)

\* the cell of the input, as a Cell record of the data model
SrcHasType(c) == "cell_type" \in DOMAIN c.d
SrcType(c) == IF SrcHasType(c) THEN c.d.cell_type ELSE "code"
SrcFragments(c) == IF "source" \in DOMAIN c.d THEN c.d.source ELSE <<>>
SrcContent(c) == Concat(SrcFragments(c))

\* the output block of the j-th cell: marker line, body, blank line
ExpBlock(j) ==
    MarkerLine(j)
    \o Concat(dispatch(SrcType(cells.a[j]), SrcContent(cells.a[j])))
    \o <<NL>>

RECURSIVE ExpUpTo(_)
ExpUpTo(n) == IF n = 0 THEN <<>> ELSE ExpUpTo(n - 1) \o ExpBlock(n)

\* what write_cell has written since it was entered
CurBlock == SubSeq(outFile.data, blockStart + 1, Len(outFile.data))

\* the formatter has returned, write_cell has the blank line left to write
FormatterDone == pc = "writing" /\ Len(pending) = 1

\* write_cell has just returned
BlockWritten == pc = "for" /\ taken >= 1

Converted == pc = "done" /\ success = "True"

LoadFails ==
    \/ ~inFile.readable
    \/ ~inFile.parses
    \/ ~IsObject(inFile.value)

SrcCells == IF "cells" \in DOMAIN inFile.value.d THEN inFile.value.d.cells ELSE JArray(<<>>)

InputFails ==
    \/ LoadFails
    \/ ~outWritable
    \/ ~IsArray(SrcCells)
    \/ \E j \in DOMAIN SrcCells.a : ~IsObject(SrcCells.a[j])

----------------------------------------------------------------------------
(* C1: a cell whose cell_type is none of code, markdown, raw gets the      *)
(* block write_cell emits for a code cell of the same number and content.  *)
C1_UnknownTypeAsCode ==
    (BlockWritten /\ SrcHasType(cell) /\ cell.d.cell_type \notin {"code", "markdown", "raw"})
        => CurBlock = Concat(write_cell(i + 1, "code", cell_content))

(* C2: a code cell with no source or an empty source gets the marker line  *)
(* and exactly one bare newline.                                           *)
C2_EmptyCodeCell ==
    (BlockWritten /\ SrcType(cell) = "code" /\ SrcFragments(cell) = <<>>)
        => CurBlock = MarkerLine(i + 1) \o <<NL>>

(* C4: the code formatter writes a non-empty content unchanged when it     *)
(* ends in a newline and followed by one newline otherwise.                *)
C4_CodeFormatter ==
    (FormatterDone /\ cell_type = "code" /\ cell_content # <<>>)
        => CurBlock = MarkerLine(i + 1)
                      \o (IF EndsWithNL(cell_content) THEN cell_content
                          ELSE cell_content \o <<NL>>)

C4_Witness ==
    /\ FormatterDone
    /\ cell_type = "code"
    /\ Len(cell_content) >= 2
    /\ EndsWithNL(cell_content)
    /\ CurBlock = MarkerLine(1) \o cell_content

(* C5: the markdown formatter writes the docstring line, the md fence      *)
(* line, the content with a newline appended only if it ends in none, the  *)
(* closing fence line and the closing docstring line, and nothing else.    *)
C5_MarkdownFormatter ==
    (FormatterDone /\ cell_type = "markdown")
        => CurBlock = MarkerLine(i + 1)
                      \o <<Q3, NL>> \o <<FenceMd, NL>>
                      \o EnsureNL(cell_content)
                      \o <<Fence, NL>> \o <<Q3, NL>>

C5_Witness ==
    /\ FormatterDone
    /\ cell_type = "markdown"
    /\ cell_content = <<X>>
    /\ CurBlock = MarkerLine(1) \o <<Q3, NL, FenceMd, NL, X, NL, Fence, NL, Q3, NL>>

----------------------------------------------------------------------------
(* C3, as stated: after a conversion of k cells of any contents the lines  *)
(* of the form "# %% Cell <n>" of the output are exactly those of 1..k,    *)
(* in this order.                                                          *)
C3_MarkersAnyContent ==
    Converted
        => MarkerLines(outFile.data) = [j \in 1..Len(cells.a) |-> <<Hdr>> \o Dec(j)]

NoMarkerInContent ==
    \A j \in DOMAIN SrcCells.a : MarkerLines(SrcContent(SrcCells.a[j])) = <<>>

(* C3, amended: after a conversion of k cells none of whose contents has a *)
(* line of the form "# %% Cell <n>", the lines of that form of the output  *)
(* are exactly those of 1..k, in this order.                               *)
C3_Markers ==
    (Converted /\ NoMarkerInContent)
        => MarkerLines(outFile.data) = [j \in 1..Len(cells.a) |-> <<Hdr>> \o Dec(j)]

C3_Witness ==
    /\ Converted
    /\ NoMarkerInContent
    /\ Len(cells.a) = 2
    /\ \A j \in 1..2 : SrcContent(cells.a[j]) # <<>> /\ SrcType(cells.a[j]) = "code"
    /\ MarkerLines(outFile.data) = << <<Hdr, "1">>, <<Hdr, "2">> >>

(* C6: no exception leaves convert_notebook_to_py; it returns False when   *)
(* the input is unreadable, not JSON, not a mapping, has a cell that is    *)
(* not a mapping or the output is unwritable, and main then exits with 1;  *)
(* it returns True and main exits with 0 only when every cell was written. *)
C6_NoEscape ==
    /\ pc # "uncaught"
    /\ pc \in {"exit", "done"} =>
          /\ success \in {"True", "False"}
          /\ InputFails => success = "False"
          /\ success = "True" =>
                /\ taken = Len(cells.a)
                /\ outFile.data = ExpUpTo(Len(cells.a))
    /\ pc = "done" => exitCode = (IF success = "True" THEN 0 ELSE 1)

C6_Witness ==
    /\ pc = "done"
    /\ success = "False"
    /\ exitCode = 1
    /\ taken = 2
    /\ ~IsObject(cell)
    /\ outFile.data = ExpUpTo(1)

(* C7: when the input is a mapping without "cells" (and the output can be  *)
(* opened), the output file exists and is empty after the conversion, and  *)
(* the conversion returns True.                                            *)
C7_NoCellsField ==
    (pc = "done" /\ ~LoadFails /\ "cells" \notin DOMAIN inFile.value.d /\ outWritable)
        => /\ outFile = [exists |-> TRUE, data |-> <<>>]
           /\ success = "True"
           /\ exitCode = 0

C7_Witness ==
    /\ pc = "done"
    /\ run = "first"
    /\ ~LoadFails
    /\ "cells" \notin DOMAIN inFile.value.d
    /\ outBefore = [exists |-> TRUE, data |-> StaleData]
    /\ outFile = [exists |-> TRUE, data |-> <<>>]
    /\ success = "True"

(* C8: the output file after the second of two conversions of the same     *)
(* input to the same output is the output file after the first.            *)
C8_SecondRunSameOutput ==
    (run = "second" /\ pc = "done") => outFile = firstOut

C8_Witness ==
    /\ run = "second"
    /\ pc = "done"
    /\ success = "True"
    /\ Len(cells.a) = 2
    /\ outFile.data # <<>>
    /\ outFile = firstOut

(* C9: while the cells are written, the output is the blocks of the cells  *)
(* before the current one, in input order, then a prefix of the current    *)
(* cell's block (marker line, body, blank line) that the writes still to   *)
(* make complete; the content of a cell is its fragments concatenated.     *)
C9_BlocksInOrder ==
    /\ (pc \in {"for", "cell", "call", "writing", "print_ok"} /\ IsArray(cells)) =>
          LET written == IF pc \in {"for", "print_ok"} THEN taken ELSE i
              before == ExpUpTo(written)
              rest == SubSeq(outFile.data, Len(before) + 1, Len(outFile.data))
          IN  /\ IsPrefix(before, outFile.data)
              /\ IF pc = "writing"
                 THEN /\ IsPrefix(rest, ExpBlock(i + 1))
                      /\ rest \o Concat(pending) = ExpBlock(i + 1)
                      /\ cell_content = SrcContent(cell)
                 ELSE rest = <<>>
    /\ Converted => outFile.data = ExpUpTo(Len(cells.a))

C9_Witness ==
    /\ pc = "writing"
    /\ i = 1
    /\ Len(pending) = 2
    /\ cell_type = "markdown"
    /\ Len(SrcFragments(cell)) = 2
    /\ outFile.data = ExpUpTo(1) \o MarkerLine(2) \o <<Q3, NL, FenceMd, NL, X, NL, X, NL, Fence, NL>>

(* C10: the output is opened only after the input was read, parsed and     *)
(* released; when loading fails the output file is what it was before.     *)
C10_LoadFailureKeepsOutput ==
    /\ pc \in {"open_in", "json_load", "get_cells", "open_out"} =>
          outFile = outBefore /\ ~outOpen
    /\ (LoadFails /\ pc \in {"raised", "exit", "done"}) =>
          outFile = outBefore /\ ~outOpen
    /\ outOpen => ~inOpen /\ notebook = inFile.value

C10_Witness ==
    /\ pc = "done"
    /\ inFile.readable
    /\ ~inFile.parses
    /\ success = "False"
    /\ outWritable
    /\ outFile = [exists |-> TRUE, data |-> StaleData]

====
